---- MODULE Spec2Model ----
(***************************************************************************)
(* The conversation-history and turn-update protocol of the chat scripts   *)
(* app_claude.py, app_grok.py, app_gemini2.py and app_gemini3.py.          *)
(*                                                                         *)
(* A text is a sequence of tokens (a token is a string that is never split *)
(* further); concatenation of texts is \o and the empty text is << >>.     *)
(* Each script keeps one process-global history.  A session is one running *)
(* event handler; handlers of different sessions interleave at the points  *)
(* where the code suspends: a generator's yield and the network call.      *)
(***************************************************************************)
EXTENDS Integers, Sequences, FiniteSets, TLC

\* ------------------------------------------------------------------ bounds
NumSessions == 2
MaxSubmits == 3
MaxChunks == 1

Sessions == 1..NumSessions
Variants == {"claude", "grok", "gemini2", "gemini3"}

\* ------------------------------------------------------------------- texts
\* Python's None in a slot that otherwise holds a text.
None == <<"<None>">>

\* The texts a user types into the text box.
UserTexts == {<< >>, <<" ">>, <<"a">>}

\* The content deltas the model streams; the None/"" delta is << >>.
StreamChunks == {<< >>, <<"r">>}

\* The content of a non-streamed completion.
Contents == {<< >>, <<"r">>}

\* Outcomes of client.chat.completions.create: a completion, a GroqError
\* (authentication, unknown model, connection) or any other exception.
GroqErrors == {"auth", "model", "conn"}
Failures == GroqErrors \cup {"exc"}
Outcomes == {"ok"} \cup Failures

\* Python truthiness of an Optional[str]: None and "" are falsy.
Truthy(x) == x /= None /\ x /= << >>

IsSpace(c) == c = " "

RECURSIVE lstrip(_)
lstrip(t) == IF t /= << >> /\ IsSpace(Head(t)) THEN lstrip(Tail(t)) ELSE t

RECURSIVE rstrip(_)
rstrip(t) ==
    IF t /= << >> /\ IsSpace(t[Len(t)]) THEN rstrip(SubSeq(t, 1, Len(t) - 1)) ELSE t

\* str.strip()
strip(t) == rstrip(lstrip(t))

\* ---------------------------------------------------------------- messages
Message(role, content) == [role |-> role, content |-> content]

SYSTEM_PROMPT == <<"You are an expert Python Code Debugging Assistant.">>
GROK_SYSTEM_PROMPT == <<"You are a helpful assistant.">>

\* Mutant of PairMessages: the ai part of every pair is left out.
PairMessages_UserOnly(h) == [i \in 1..Len(h) |-> Message("user", h[i].u)]

\* The loop shared by the pair-based scripts: for each [user, ai] pair, a user
\* message if the user text is truthy, then an assistant message if the ai
\* text is truthy.
RECURSIVE PairMessages(_)
PairMessages(h) ==
    IF h = << >> THEN << >>
    ELSE (IF Truthy(h[1].u) THEN <<Message("user", h[1].u)>> ELSE << >>)
         \o (IF Truthy(h[1].a) THEN <<Message("assistant", h[1].a)>> ELSE << >>)
         \o PairMessages(Tail(h))

\* app_claude: system, the pairs of the global history, the current message.
ClaudeMessages(h, user_message) ==
    <<Message("system", SYSTEM_PROMPT)>> \o PairMessages(h)
        \o <<Message("user", user_message)>>

\* app_gemini2: system, then the pairs of history_to_process (which already
\* ends with the pair of the current message).
Gemini2Messages(h) == <<Message("system", SYSTEM_PROMPT)>> \o PairMessages(h)

\* app_gemini3: system, the pairs of history_to_process[:-1], then the user
\* text of the last pair if it is truthy.
Gemini3Messages(h) ==
    <<Message("system", SYSTEM_PROMPT)>>
        \o (IF h = << >> THEN << >> ELSE PairMessages(SubSeq(h, 1, Len(h) - 1)))
        \o (IF h /= << >> /\ Truthy(h[Len(h)].u)
            THEN <<Message("user", h[Len(h)].u)>> ELSE << >>)

\* app_grok sends global_history itself (here without the bookkeeping field).
RECURSIVE GrokMessages(_)
GrokMessages(g) ==
    IF g = << >> THEN << >>
    ELSE <<Message(g[1].role, g[1].content)>> \o GrokMessages(Tail(g))

\* ------------------------------------------------------------- error texts
MissingCredentialLong ==
    <<"Error: GROQ_API_KEY environment variable not set.",
      " Please set it and restart the application.">>
MissingCredentialShort == <<"Error: GROQ_API_KEY environment variable not set.">>

\* str(e) of the exception of each kind.
ErrStr(kind) ==
    CASE kind = "auth" -> "authentication failed: invalid api key"
      [] kind = "model" -> "model_not_found"
      [] kind = "conn" -> "Connection error."
      [] OTHER -> "boom"

\* The text app_claude and app_gemini3 make of an exception.
LongErrorText(kind) ==
    IF kind \in GroqErrors
    THEN <<"Groq API Error: ", ErrStr(kind)>>
         \o (IF kind = "auth"
             THEN <<"\nPlease check if your GROQ_API_KEY is correct and has permissions.">>
             ELSE << >>)
         \o (IF kind = "model"
             THEN <<"\nThe model might not be available.">>
             ELSE << >>)
    ELSE <<"An unexpected error occurred: ", ErrStr(kind)>>

\* The text app_gemini2 makes of an exception.
ShortErrorText(kind) ==
    IF kind \in GroqErrors
    THEN <<"Groq API Error: ", ErrStr(kind)>>
    ELSE <<"An unexpected error occurred: ", ErrStr(kind)>>

\* ------------------------------------------------------------------- state
VARIABLES
    variant,                 \* which script is running
    api_key,                 \* whether GROQ_API_KEY is set in the environment
    global_chat_history,     \* app_claude, app_gemini2, app_gemini3: the pairs
    global_history,          \* app_grok: the flat message list
    pc,                      \* per session: where its handler stands
    user_message,            \* per session: the running handler's argument
    ai_response_accumulator, \* per session: app_gemini3's accumulator
    chunks_read,             \* per session: deltas read from the stream so far
    request,                 \* per session: the request in flight
    turn_id,                 \* per session: number of the running handler's submission
    appended,                \* per session: Turns the running handler has added
    cleared,                 \* per session: a clear came while the handler ran
    net_calls,               \* number of requests sent to the endpoint
    next_id,                 \* number the next submission gets
    chatbot,                 \* app_claude: the message list of the client's chatbot
    chat_history,            \* app_claude, per session: respond's chat_history
    last_event               \* the handler step taken last

vars == <<variant, api_key, global_chat_history, global_history, pc, user_message,
          ai_response_accumulator, chunks_read, request, turn_id, appended,
          cleared, net_calls, next_id, chatbot, chat_history, last_event>>

\* A pair [user_message, ai_message] of global_chat_history.  id is the number
\* of the submission that appended the pair and by the number of the
\* submission whose handler last wrote the ai part (0: nobody yet); neither
\* is read by the handlers.
Turn(u, a, id, by) == [u |-> u, a |-> a, id |-> id, by |-> by]

\* An entry of app_grok's global_history; id as above (0 for the system message).
Entry(role, content, id) == [role |-> role, content |-> content, id |-> id]

NoRequest == [messages |-> << >>, snapshot |-> << >>]
Request(messages, snapshot) == [messages |-> messages, snapshot |-> snapshot]

InFlight(s) == pc[s] /= "idle"

\* The History of the running script as a sequence of Turns.  app_grok keeps
\* a flat list: there a Turn is a user entry, with the assistant entry of the
\* same submission as its assistant text when the list holds one.
RECURSIVE GrokTurns(_, _)
GrokTurns(g, all) ==
    IF g = << >> THEN << >>
    ELSE (IF g[1].role = "user"
          THEN LET replies == {i \in 1..Len(all) :
                                 all[i].role = "assistant" /\ all[i].id = g[1].id}
               IN  <<IF replies = {}
                     THEN Turn(g[1].content, None, g[1].id, 0)
                     ELSE Turn(g[1].content, all[CHOOSE i \in replies : TRUE].content,
                               g[1].id, g[1].id)>>
          ELSE << >>)
         \o GrokTurns(Tail(g), all)

History ==
    IF variant = "grok" THEN GrokTurns(global_history, global_history)
    ELSE global_chat_history

HistoryAfter ==
    IF variant = "grok" THEN GrokTurns(global_history', global_history')
    ELSE global_chat_history'

Init ==
    /\ variant \in Variants
    /\ api_key \in BOOLEAN
    /\ variant = "grok" => api_key
    /\ global_chat_history = << >>
    /\ global_history = <<Entry("system", GROK_SYSTEM_PROMPT, 0)>>
    /\ pc = [s \in Sessions |-> "idle"]
    /\ user_message = [s \in Sessions |-> << >>]
    /\ ai_response_accumulator = [s \in Sessions |-> << >>]
    /\ chunks_read = [s \in Sessions |-> 0]
    /\ request = [s \in Sessions |-> NoRequest]
    /\ turn_id = [s \in Sessions |-> 0]
    /\ appended = [s \in Sessions |-> 0]
    /\ cleared = [s \in Sessions |-> FALSE]
    /\ net_calls = 0
    /\ next_id = 1
    /\ chatbot = << >>
    /\ chat_history = [s \in Sessions |-> << >>]
    /\ last_event = [op |-> "init", s |-> 0, m |-> << >>, id |-> 0, oc |-> "none",
                     end |-> "no", added |-> 0, total |-> 0, cleared |-> FALSE]

\* The record of a step of the handler of session s, taken after the step's
\* effect on the history: the operation, the handler's message and submission
\* number (0: none), how its inference step ended ("none": not yet; "missing":
\* no credential; "ok"; or the kind of failure), how the handler ended ("no":
\* it is still running), by how much the step changed the length of the
\* History, by how much the handler has changed it so far, and whether a clear
\* came while the handler ran.
Record(op, s, m, id, oc, end) ==
    LET d == Len(HistoryAfter) - Len(History) IN
    /\ last_event' = [op |-> op, s |-> s, m |-> m, id |-> id, oc |-> oc, end |-> end,
                      added |-> d, total |-> appended[s] + d, cleared |-> cleared[s]]
    /\ appended' = [appended EXCEPT ![s] = IF end = "no" THEN @ + d ELSE 0]
    /\ cleared' = [cleared EXCEPT ![s] = IF end = "no" THEN @ ELSE FALSE]

\* A handler starts in a session that runs none.
Start(s) ==
    /\ pc[s] = "idle"
    /\ next_id <= MaxSubmits

\* The handler of session s goes on to position p with message m, submission
\* number id, accumulator acc, n deltas read and request req.  A handler that
\* starts gets the value of the chatbot as chat_history (the chatbot is an
\* input of app_claude's respond only; elsewhere it is not followed and stays
\* empty).
Goto(s, p, m, id, acc, n, req) ==
    /\ pc' = [pc EXCEPT ![s] = p]
    /\ user_message' = [user_message EXCEPT ![s] = m]
    /\ turn_id' = [turn_id EXCEPT ![s] = id]
    /\ ai_response_accumulator' = [ai_response_accumulator EXCEPT ![s] = acc]
    /\ chunks_read' = [chunks_read EXCEPT ![s] = n]
    /\ request' = [request EXCEPT ![s] = req]
    /\ chat_history' =
           [chat_history EXCEPT
               ![s] = IF p = "idle" THEN << >>
                      ELSE IF pc[s] = "idle" THEN chatbot ELSE @]

\* The handler of session s ends (it returns or an exception leaves it); its
\* locals are gone.
Finish(s) == Goto(s, "idle", << >>, 0, << >>, 0, NoRequest)

\* Mutants of list.append: the element is appended twice; the element is
\* inserted at the front.
ListAppendTwice(list, x) == Append(Append(list, x), x)
ListPrepend(list, x) == <<x>> \o list

\* list.append
ListAppend(list, x) == Append(list, x)

\* Mutant of ClaudeText: a failed inference step hands back an empty text.
ClaudeText_EmptyOnError(oc, content) == IF oc = "ok" THEN content ELSE << >>

\* The text a failed or successful inference step hands back in app_claude.
ClaudeText(oc, content) == IF oc = "ok" THEN content ELSE LongErrorText(oc)

\* The text call_groq_llm returns.
Gemini2Text(oc, content) == IF oc = "ok" THEN content ELSE ShortErrorText(oc)

\* respond's update of chat_history: the message and the bot's answer are
\* appended as a user and an assistant message, whatever they are.
RespondMessages(history, m, bot_message) ==
    history \o <<Message("user", m), Message("assistant", bot_message)>>

\* Mutant of load_history: only the user messages are loaded.
load_history_UserOnly ==
    /\ variant = "claude"
    /\ \A s \in Sessions : pc[s] = "idle"
    /\ chatbot' = [i \in 1..Len(global_chat_history) |->
                       Message("user", global_chat_history[i].u)]
    /\ last_event' = [op |-> "load", s |-> 0, m |-> << >>, id |-> 0, oc |-> "none",
                      end |-> "no", added |-> 0, total |-> 0, cleared |-> FALSE]
    /\ UNCHANGED <<variant, api_key, global_chat_history, global_history, pc,
                   user_message, ai_response_accumulator, chunks_read, request,
                   turn_id, appended, cleared, net_calls, next_id, chat_history>>

\* Mutant of Claude_respond: the credential is not checked before the request
\* is built and sent.
Claude_respond_NoKeyCheck(s, m) ==
    /\ variant = "claude"
    /\ Start(s)
    /\ next_id' = next_id + 1
    /\ Goto(s, "awaiting", m, next_id, << >>, 0,
            Request(ClaudeMessages(global_chat_history, m), global_chat_history))
    /\ net_calls' = net_calls + 1
    /\ UNCHANGED <<variant, api_key, chatbot, global_history, global_chat_history>>
    /\ Record("submit", s, m, next_id, "none", "no")

\* Mutant of clear_chat: without the global statement the assignment binds a
\* local name and the global history stays as it is.
clear_chat_LocalOnly ==
    /\ variant \in {"claude", "gemini2", "gemini3"}
    /\ global_chat_history' = global_chat_history
    /\ chatbot' = << >>
    /\ cleared' = [s \in Sessions |-> InFlight(s)]
    /\ last_event' = [op |-> "clear", s |-> 0, m |-> << >>, id |-> 0, oc |-> "none",
                      end |-> "no", added |-> 0, total |-> 0, cleared |-> FALSE]
    /\ UNCHANGED <<variant, api_key, global_history, pc, user_message,
                   ai_response_accumulator, chunks_read, request, turn_id,
                   appended, net_calls, next_id, chat_history>>

\* ---------------------------------------------------------------- app_claude
\* respond -> get_llm_code_explanation up to the network call: without a
\* credential the pair [user_message, response] is appended and the handler
\* returns its chat_history with the two new messages; otherwise the request
\* is built from the global history and sent.
Claude_respond(s, m) ==
    /\ variant = "claude"
    /\ Start(s)
    /\ next_id' = next_id + 1
    /\ IF ~api_key
       THEN /\ global_chat_history' =
                  ListAppend(global_chat_history,
                             Turn(m, MissingCredentialLong, next_id, next_id))
            /\ chatbot' = RespondMessages(chatbot, m, MissingCredentialLong)
            /\ Finish(s)
            /\ UNCHANGED <<variant, api_key, global_history, net_calls>>
            /\ Record("submit", s, m, next_id, "missing", "returned")
       ELSE /\ Goto(s, "awaiting", m, next_id, << >>, 0,
                    Request(ClaudeMessages(global_chat_history, m),
                            global_chat_history))
            /\ net_calls' = net_calls + 1
            /\ UNCHANGED <<variant, api_key, chatbot, global_history, global_chat_history>>
            /\ Record("submit", s, m, next_id, "none", "no")

\* get_llm_code_explanation from the return of the network call: the reply or
\* the error text is appended as a pair with the message, whatever the global
\* history holds by then; respond then returns its chat_history with the two
\* new messages, which becomes the chatbot.
Claude_reply(s, oc, content) ==
    /\ variant = "claude"
    /\ pc[s] = "awaiting"
    /\ global_chat_history' =
           ListAppend(global_chat_history,
                      Turn(user_message[s], ClaudeText(oc, content),
                           turn_id[s], turn_id[s]))
    /\ chatbot' = RespondMessages(chat_history[s], user_message[s],
                                  ClaudeText(oc, content))
    /\ Finish(s)
    /\ UNCHANGED <<variant, api_key, global_history, net_calls, next_id>>
    /\ Record("reply", s, user_message[s], turn_id[s], oc, "returned")

\* clear_history (app_claude) and clear_chat (app_gemini2, app_gemini3): the
\* global is rebound to a new empty list and the returned [] becomes the
\* chatbot.
clear_chat ==
    /\ variant \in {"claude", "gemini2", "gemini3"}
    /\ global_chat_history' = << >>
    /\ chatbot' = << >>
    /\ cleared' = [s \in Sessions |-> InFlight(s)]
    /\ last_event' = [op |-> "clear", s |-> 0, m |-> << >>, id |-> 0, oc |-> "none",
                      end |-> "no", added |-> 0 - Len(global_chat_history),
                      total |-> 0, cleared |-> FALSE]
    /\ UNCHANGED <<variant, api_key, global_history, pc, user_message,
                   ai_response_accumulator, chunks_read, request, turn_id,
                   appended, net_calls, next_id, chat_history>>

\* load_history (app_claude), run when the client loads the page while none
\* of its events is running: the pairs of the global history as messages,
\* empty texts left out, become the chatbot.
load_history ==
    /\ variant = "claude"
    /\ \A s \in Sessions : pc[s] = "idle"
    /\ chatbot' = PairMessages(global_chat_history)
    /\ last_event' = [op |-> "load", s |-> 0, m |-> << >>, id |-> 0, oc |-> "none",
                      end |-> "no", added |-> 0, total |-> 0, cleared |-> FALSE]
    /\ UNCHANGED <<variant, api_key, global_chat_history, global_history, pc,
                   user_message, ai_response_accumulator, chunks_read, request,
                   turn_id, appended, cleared, net_calls, next_id, chat_history>>

\* ------------------------------------------------------------------ app_grok
\* respond up to the network call: the user message is appended and the whole
\* global_history is sent.
Grok_respond(s, m) ==
    /\ variant = "grok"
    /\ Start(s)
    /\ next_id' = next_id + 1
    /\ global_history' = ListAppend(global_history, Entry("user", m, next_id))
    /\ Goto(s, "awaiting", m, next_id, << >>, 0,
            Request(GrokMessages(global_history'), HistoryAfter))
    /\ net_calls' = net_calls + 1
    /\ UNCHANGED <<variant, api_key, chatbot, global_chat_history>>
    /\ Record("submit", s, m, next_id, "none", "no")

\* respond from the return of the network call: the reply is appended; an
\* exception of the call is not caught and ends the handler.
Grok_reply(s, oc, content) ==
    /\ variant = "grok"
    /\ pc[s] = "awaiting"
    /\ global_history' =
           IF oc = "ok"
           THEN ListAppend(global_history, Entry("assistant", content, turn_id[s]))
           ELSE global_history
    /\ Finish(s)
    /\ UNCHANGED <<variant, api_key, chatbot, global_chat_history, net_calls, next_id>>
    /\ Record("reply", s, user_message[s], turn_id[s], oc,
              IF oc = "ok" THEN "returned" ELSE "raised")

\* respond's conversion of global_history to the pairs it returns: the
\* entries after the system message taken two by two, the second of a pair
\* being None when the list ends after the first.
GradioHistory(g) ==
    [k \in 1..(Len(g) \div 2) |->
        <<g[2 * k].content,
          IF 2 * k + 1 <= Len(g) THEN g[2 * k + 1].content ELSE None>>]

\* --------------------------------------------------- app_gemini2, app_gemini3
\* global_chat_history[-1][1] = text on a non-empty list.
SetLastAi(h, text, by) ==
    [h EXCEPT ![Len(h)] = [@ EXCEPT !.a = text, !.by = by]]

\* The statement global_chat_history[-1][1] = text as a handler executes it:
\* on an empty list the index raises IndexError, which nothing catches.
IndexError == global_chat_history = << >>

\* Mutant of StoreInLast: the statement is left out and the last pair keeps
\* the ai part it had.
StoreInLast_Skipped(text, by) == global_chat_history' = global_chat_history

StoreInLast(text, by) ==
    global_chat_history' =
        IF IndexError THEN global_chat_history
        ELSE SetLastAi(global_chat_history, text, by)

\* How a handler ends whose last statement before its final yield is the store.
EndOfStore == IF IndexError THEN "raised" ELSE "returned"

\* app_gemini2 handle_user_submission, step 1: append [user_message, None]
\* and yield.
Gemini2_handle_user_submission(s, m) ==
    /\ variant = "gemini2"
    /\ Start(s)
    /\ next_id' = next_id + 1
    /\ global_chat_history' = ListAppend(global_chat_history, Turn(m, None, next_id, 0))
    /\ Goto(s, "yielded", m, next_id, << >>, 0, NoRequest)
    /\ UNCHANGED <<variant, api_key, chatbot, global_history, net_calls>>
    /\ Record("submit", s, m, next_id, "none", "no")

\* app_gemini2 step 2 up to the network call: call_groq_llm on a copy of the
\* global history.  Without a credential it returns at once and step 3 stores
\* the text; otherwise the request is built from the copy and sent.
Gemini2_call_groq_llm(s) ==
    /\ variant = "gemini2"
    /\ pc[s] = "yielded"
    /\ IF ~api_key
       THEN /\ StoreInLast(MissingCredentialShort, turn_id[s])
            /\ Finish(s)
            /\ UNCHANGED <<variant, api_key, chatbot, global_history, next_id, net_calls>>
            /\ Record("call", s, user_message[s], turn_id[s], "missing", EndOfStore)
       ELSE /\ Goto(s, "awaiting", user_message[s], turn_id[s], << >>, 0,
                    Request(Gemini2Messages(global_chat_history),
                            global_chat_history))
            /\ net_calls' = net_calls + 1
            /\ UNCHANGED <<variant, api_key, chatbot, global_history, next_id,
                           global_chat_history>>
            /\ Record("call", s, user_message[s], turn_id[s], "none", "no")

\* app_gemini2 from the return of the network call: call_groq_llm returns the
\* reply or the error text, step 3 stores it in the last pair, step 4 yields.
Gemini2_reply(s, oc, content) ==
    /\ variant = "gemini2"
    /\ pc[s] = "awaiting"
    /\ StoreInLast(Gemini2Text(oc, content), turn_id[s])
    /\ Finish(s)
    /\ UNCHANGED <<variant, api_key, chatbot, global_history, net_calls, next_id>>
    /\ Record("reply", s, user_message[s], turn_id[s], oc, EndOfStore)

\* not user_message.strip()
IsBlank(m) == strip(m) = << >>

\* app_gemini3 handle_user_submission up to its first yield: a blank message
\* yields the current state and returns; any other message is appended as
\* [user_message, ""].
Gemini3_handle_user_submission(s, m) ==
    /\ variant = "gemini3"
    /\ Start(s)
    /\ IF IsBlank(m)
       THEN /\ Finish(s)
            /\ UNCHANGED <<variant, api_key, chatbot, global_history, net_calls,
                           global_chat_history, next_id>>
            /\ Record("submit", s, m, 0, "none", "returned")
       ELSE /\ global_chat_history' =
                  ListAppend(global_chat_history, Turn(m, << >>, next_id, 0))
            /\ Goto(s, "yielded", m, next_id, << >>, 0, NoRequest)
            /\ next_id' = next_id + 1
            /\ UNCHANGED <<variant, api_key, chatbot, global_history, net_calls>>
            /\ Record("submit", s, m, next_id, "none", "no")

\* app_gemini3: the loop over call_groq_llm_stream(list(global_chat_history))
\* starts.  Without a credential the generator yields the fixed text as its
\* only chunk, the handler stores it and the loop ends; otherwise the request
\* is built from the copy and the stream is opened.
Gemini3_call_groq_llm_stream(s) ==
    /\ variant = "gemini3"
    /\ pc[s] = "yielded"
    /\ IF ~api_key
       THEN /\ StoreInLast(ai_response_accumulator[s] \o MissingCredentialLong,
                           turn_id[s])
            /\ Finish(s)
            /\ UNCHANGED <<variant, api_key, chatbot, global_history, next_id, net_calls>>
            /\ Record("call", s, user_message[s], turn_id[s], "missing", EndOfStore)
       ELSE /\ Goto(s, "streaming", user_message[s], turn_id[s],
                    ai_response_accumulator[s], 0,
                    Request(Gemini3Messages(global_chat_history),
                            global_chat_history))
            /\ net_calls' = net_calls + 1
            /\ UNCHANGED <<variant, api_key, chatbot, global_history, next_id,
                           global_chat_history>>
            /\ Record("call", s, user_message[s], turn_id[s], "none", "no")

\* app_gemini3: one delta of the stream.  A falsy content is skipped; a truthy
\* one is yielded, added to the accumulator and the accumulator is stored in
\* the last pair.
Gemini3_chunk(s, chunk) ==
    /\ variant = "gemini3"
    /\ pc[s] = "streaming"
    /\ chunks_read[s] < MaxChunks
    /\ UNCHANGED <<variant, api_key, chatbot, global_history, net_calls, next_id>>
    /\ IF ~Truthy(chunk)
       THEN /\ Goto(s, "streaming", user_message[s], turn_id[s],
                    ai_response_accumulator[s], chunks_read[s] + 1, request[s])
            /\ UNCHANGED global_chat_history
            /\ Record("chunk", s, user_message[s], turn_id[s], "none", "no")
       ELSE /\ StoreInLast(ai_response_accumulator[s] \o chunk, turn_id[s])
            /\ IF IndexError
               THEN /\ Finish(s)
                    /\ Record("chunk", s, user_message[s], turn_id[s], "none", "raised")
               ELSE /\ Goto(s, "streaming", user_message[s], turn_id[s],
                            ai_response_accumulator[s] \o chunk,
                            chunks_read[s] + 1, request[s])
                    /\ Record("chunk", s, user_message[s], turn_id[s], "none", "no")

\* app_gemini3: the stream is exhausted; the final yield and the return.
Gemini3_stream_end(s) ==
    /\ variant = "gemini3"
    /\ pc[s] = "streaming"
    /\ Finish(s)
    /\ UNCHANGED <<variant, api_key, chatbot, global_chat_history, global_history,
                   net_calls, next_id>>
    /\ Record("end", s, user_message[s], turn_id[s], "ok", "returned")

\* app_gemini3: create() or the stream raises; the generator yields the error
\* text as its last chunk, which the handler adds to the accumulator and stores.
Gemini3_stream_error(s, kind) ==
    /\ variant = "gemini3"
    /\ pc[s] = "streaming"
    /\ StoreInLast(ai_response_accumulator[s] \o LongErrorText(kind), turn_id[s])
    /\ Finish(s)
    /\ UNCHANGED <<variant, api_key, chatbot, global_history, net_calls, next_id>>
    /\ Record("error", s, user_message[s], turn_id[s], kind, EndOfStore)

\* ------------------------------------------------------------ specification
\* A handler starts on a submitted text.
Submission ==
    \/ \E s \in Sessions, m \in UserTexts : Claude_respond(s, m)
    \/ \E s \in Sessions, m \in UserTexts : Grok_respond(s, m)
    \/ \E s \in Sessions, m \in UserTexts : Gemini2_handle_user_submission(s, m)
    \/ \E s \in Sessions, m \in UserTexts : Gemini3_handle_user_submission(s, m)

\* A running handler takes its next step.
Continuation ==
    \/ \E s \in Sessions, c \in Contents : Claude_reply(s, "ok", c)
    \/ \E s \in Sessions, k \in Failures : Claude_reply(s, k, << >>)
    \/ \E s \in Sessions, c \in Contents : Grok_reply(s, "ok", c)
    \/ \E s \in Sessions, k \in Failures : Grok_reply(s, k, << >>)
    \/ \E s \in Sessions : Gemini2_call_groq_llm(s)
    \/ \E s \in Sessions, c \in Contents : Gemini2_reply(s, "ok", c)
    \/ \E s \in Sessions, k \in Failures : Gemini2_reply(s, k, << >>)
    \/ \E s \in Sessions : Gemini3_call_groq_llm_stream(s)
    \/ \E s \in Sessions, c \in StreamChunks : Gemini3_chunk(s, c)
    \/ \E s \in Sessions : Gemini3_stream_end(s)
    \/ \E s \in Sessions, k \in Failures : Gemini3_stream_error(s, k)

\* Handlers of different sessions interleave freely at their suspension points.
Next == Submission \/ Continuation \/ clear_chat \/ load_history

Spec == Init /\ [][Next]_vars

\* One handler at a time: each submission runs to its end before the next one
\* starts (a clear can still come at any time).
NoHandlerRuns == \A s \in Sessions : pc[s] = "idle"

NextSeq ==
    (NoHandlerRuns /\ Submission) \/ Continuation \/ clear_chat \/ load_history

SpecSeq == Init /\ [][NextSeq]_vars

\* A single client and no concurrent events: an event (a submission, a
\* clear, a page load) comes only while no handler runs.
NextSingle ==
    (NoHandlerRuns /\ (Submission \/ clear_chat \/ load_history)) \/ Continuation

SpecSingle == Init /\ [][NextSingle]_vars

\* ------------------------------------------------------------------ claims
\* The handler of the last step has ended (returned or raised).
HandlerEnded == last_event.end /= "no"

\* The Turns of the History that submission id appended.
TurnsOf(id) == {i \in 1..Len(History) : History[i].id = id}

\* C1 as stated: each submission of a non-empty text adds exactly one Turn to
\* the History over the run of its handler, however the inference step ends,
\* and the Turn it adds carries the submitted text as user_text.
C1_NonEmptyAddsOneTurn ==
    /\ (HandlerEnded /\ last_event.m /= << >>) => last_event.total = 1
    /\ (last_event.op /= "clear" /\ last_event.added /= 0) =>
           /\ last_event.added = 1
           /\ History[Len(History)].u = last_event.m

\* C1 as amended: each submission of a text that is neither empty nor
\* whitespace-only adds exactly one Turn to the History over the run of its
\* handler, however the inference step ends and whatever the History held,
\* and the Turn it adds carries the submitted text as user_text.
C1_NonBlankAddsOneTurn ==
    /\ (HandlerEnded /\ ~IsBlank(last_event.m)) => last_event.total = 1
    /\ (last_event.op /= "clear" /\ last_event.added /= 0) =>
           /\ last_event.added = 1
           /\ History[Len(History)].u = last_event.m

\* C1's case: on a History that already holds a Turn, the handler of a
\* non-blank text ends after a failed inference step, having added its Turn.
C1_Witness ==
    /\ HandlerEnded
    /\ ~IsBlank(last_event.m)
    /\ last_event.oc \in Failures
    /\ last_event.total = 1
    /\ Len(History) >= 2
    /\ \E i \in TurnsOf(last_event.id) : History[i].u = last_event.m

\* C2 as stated: in every variant the step that submits an empty or
\* whitespace-only text leaves the History as it was, leaves the session
\* without a Turn awaiting a reply and sends no request.
C2_BlankIsNoOp ==
    [][(last_event'.op = "submit" /\ IsBlank(last_event'.m)) =>
           /\ global_chat_history' = global_chat_history
           /\ global_history' = global_history
           /\ pc' = pc
           /\ net_calls' = net_calls]_vars

\* A Turn whose assistant text is not there yet: None, or no handler has
\* written it, or the handler of its submission is still running.
Incomplete(t) ==
    \/ t.a = None
    \/ t.by = 0
    \/ \E s \in Sessions : InFlight(s) /\ turn_id[s] = t.id

\* C3 as stated: in every reachable state of a shared-history variant every
\* Turn of the History but the last has its assistant text fully there.
C3_OnlyLastIncomplete ==
    \A i \in 1..(Len(History) - 1) : ~Incomplete(History[i])

\* The Turns of a snapshot whose assistant text is present.
RECURSIVE CompletedTurns(_)
CompletedTurns(h) ==
    IF h = << >> THEN 0
    ELSE (IF Truthy(h[1].a) THEN 1 ELSE 0) + CompletedTurns(Tail(h))

\* C4 as stated: every message list sent to the endpoint starts with the one
\* system Message, ends with exactly one user Message (the Message before it
\* is not a user Message) and holds 2 * (completed Turns of the History it
\* was built from) + 1 Messages after the system Message.
C4_RequestShape ==
    \A s \in Sessions :
        request[s] /= NoRequest =>
            LET msgs == request[s].messages
                n == Len(msgs)
            IN  /\ n >= 2
                /\ msgs[1].role = "system"
                /\ \A i \in 2..n : msgs[i].role /= "system"
                /\ msgs[n].role = "user"
                /\ n >= 3 => msgs[n - 1].role /= "user"
                /\ n - 1 = 2 * CompletedTurns(request[s].snapshot) + 1

\* C5 as stated: no handler ends with an uncaught exception, and a handler
\* whose inference step failed (missing credential or any error) has left
\* the error text in the assistant slot of the Turn of its own submission.
C5_FailuresBecomeText ==
    /\ last_event.end /= "raised"
    /\ (HandlerEnded /\ last_event.oc \in Failures \cup {"missing"}) =>
           \E i \in TurnsOf(last_event.id) :
               Truthy(History[i].a) /\ History[i].by = last_event.id

\* The fixed text for a missing credential: the one of app_claude and
\* app_gemini3, and the one of app_gemini2.
C6_LongText ==
    <<"Error: GROQ_API_KEY environment variable not set.",
      " Please set it and restart the application.">>
C6_ShortText == <<"Error: GROQ_API_KEY environment variable not set.">>

C7_ClearEmptiesHistory ==
    last_event.op = "clear" => (History = << >> /\ global_chat_history = << >>)

\* C7's case: a clear has just emptied a History that held Turns while a
\* handler was awaiting its reply.
C7_Witness ==
    /\ last_event.op = "clear"
    /\ last_event.added < 0
    /\ \E s \in Sessions : pc[s] \in {"awaiting", "streaming"} /\ cleared[s]

\* C8 as stated: a handler during whose run a clear came still runs to its
\* end (it returns) and has recorded its reply or error text for its Turn.
C8_ClearLeavesCompletion ==
    (HandlerEnded /\ last_event.cleared) =>
        /\ last_event.end = "returned"
        /\ \E i \in TurnsOf(last_event.id) : History[i].by = last_event.id

\* C9 as stated, in the form a finite run refutes: a Turn of the History
\* whose handler is gone has had its assistant text recorded by that handler
\* (no Turn is left behind that can no longer reach Complete or Failed).
C9_NoTurnLeftPending ==
    \A i \in 1..Len(History) :
        (\A s \in Sessions : turn_id[s] /= History[i].id) =>
            (History[i].a /= None /\ History[i].by = History[i].id)

\* The Turns of the History stand in the order their submissions started.
InSubmissionOrder ==
    \A i, j \in 1..Len(History) : i < j => History[i].id < History[j].id

\* C10 as stated: in every shared-history variant the Turns of the History
\* stand in the order their submissions started.
C10_SubmissionOrder == InSubmissionOrder

\* C10 as amended: in app_gemini2, app_gemini3 and app_grok, which append the
\* Turn when the submission starts, the Turns of the History stand in the
\* order their submissions started, also when a later reply arrives first.
C10_SubmissionOrderWhereAppendedFirst ==
    variant \in {"gemini2", "gemini3", "grok"} => InSubmissionOrder

\* C10's case: submission 1 is still awaiting its reply, the handler of
\* submission 2 has just ended with its reply, and both Turns are there.
C10_Witness ==
    /\ variant \in {"gemini2", "gemini3", "grok"}
    /\ HandlerEnded
    /\ last_event.id = 2
    /\ last_event.oc = "ok"
    /\ \E s \in Sessions : InFlight(s) /\ turn_id[s] = 1
    /\ TurnsOf(1) /= {}
    /\ TurnsOf(2) /= {}

\* The texts the non-streaming scripts record for a model output that ended
\* as oc with the content received so far: app_gemini2's and app_claude's.
C11_NonStreamingTexts(oc, content) ==
    IF oc = "missing" THEN {MissingCredentialShort, MissingCredentialLong}
    ELSE {Gemini2Text(oc, content), ClaudeText(oc, content)}

\* The step in which the streaming handler of session s returns, no clear
\* having come since it started; last is the last Turn of the History then.
C11_StreamReturns(s) ==
    /\ variant = "gemini3"
    /\ pc[s] \in {"yielded", "streaming"}
    /\ pc'[s] = "idle"
    /\ ~cleared[s]
    /\ last_event'.s = s
    /\ last_event'.end = "returned"

C12_IsPrefix(p, t) == Len(p) <= Len(t) /\ SubSeq(t, 1, Len(p)) = p

\* C12 as stated: in the streaming script every step leaves each Turn that
\* stays in the History with an assistant text of which the old one is a
\* prefix, also with two streaming submissions in flight at the same time.
C12_AssistantTextOnlyGrows ==
    [][variant = "gemini3" =>
          \A i \in 1..Len(global_chat_history) :
              \A j \in 1..Len(global_chat_history') :
                  global_chat_history[i].id = global_chat_history'[j].id =>
                      C12_IsPrefix(global_chat_history[i].a,
                                   global_chat_history'[j].a)]_vars

\* C13 as stated: under every interleaving of submissions, an assistant text
\* in the History was written by the handler of the submission that appended
\* its Turn, and by no other handler.
C13_ReplyInOwnTurn ==
    \A i \in 1..Len(History) : History[i].by \in {0, History[i].id}

\* The message list C14 names for a History h of n Turns and a new text t:
\* the system Message, each Turn's user_text and assistant_text in order,
\* then t as the final user Message.
C14_Expected(h, t) ==
    LET n == Len(h) IN
    [i \in 1..(2 * n + 2) |->
        IF i = 1 THEN Message("system", SYSTEM_PROMPT)
        ELSE IF i = 2 * n + 2 THEN Message("user", t)
        ELSE IF i % 2 = 0 THEN Message("user", h[i \div 2].u)
        ELSE Message("assistant", h[(i - 1) \div 2].a)]

C14_Prior(s) ==
    IF variant = "claude" THEN request[s].snapshot
    ELSE SubSeq(request[s].snapshot, 1, Len(request[s].snapshot) - 1)

\* Session s has a request in flight that app_claude or app_gemini3 built
\* with no clear since the handler started.
C14_Built(s) ==
    /\ variant \in {"claude", "gemini3"}
    /\ request[s] /= NoRequest
    /\ ~cleared[s]

\* Every Turn of h has a non-empty user_text and a non-empty assistant_text.
C14_AllTextsPresent(h) == \A i \in 1..Len(h) : Truthy(h[i].u) /\ Truthy(h[i].a)

C15_ErrorTexts ==
    {LongErrorText(k) : k \in Failures} \cup
    {<<"Error: GROQ_API_KEY environment variable not set.",
       " Please set it and restart the application.">>}

\* The ai part of pair i of h appears in the message list msgs as an
\* assistant Message, after the user Message of the pair if the user part
\* is not empty.
C15_InRequest(h, i, msgs) ==
    \E j \in 2..Len(msgs) :
        /\ msgs[j] = Message("assistant", h[i].a)
        /\ Truthy(h[i].u) => msgs[j - 1] = Message("user", h[i].u)

\* The step in which the handler of session s ends on a failed inference
\* step in app_claude.
C15_Fails(s) ==
    /\ variant = "claude"
    /\ pc'[s] = "idle"
    /\ last_event'.s = s
    /\ last_event'.op \in {"submit", "reply"}
    /\ last_event'.oc \in Failures \cup {"missing"}

C16_GradioPairs ==
    (variant = "grok" /\ last_event.op = "reply" /\ last_event.end = "returned") =>
        LET g == global_history
            n == next_id - 1
            gh == GradioHistory(g)
        IN  /\ g[1].role = "system"
            /\ Len(g) = 2 * n + 1
            /\ \A k \in 1..n :
                   /\ g[2 * k].role = "user" /\ g[2 * k].id = k
                   /\ g[2 * k + 1].role = "assistant" /\ g[2 * k + 1].id = k
            /\ Len(gh) = n
            /\ \A k \in 1..Len(gh) :
                   /\ gh[k][2] /= None
                   /\ \E i, j \in 2..Len(g) :
                          /\ g[i] = Entry("user", gh[k][1], k)
                          /\ g[j] = Entry("assistant", gh[k][2], k)

\* C17 as stated: in app_claude with a single client and no concurrent
\* events, the chatbot's message list is what load_history makes of the
\* global history.
C17_ChatbotIsLoadedHistory ==
    variant = "claude" => chatbot = PairMessages(global_chat_history)

\* C17 as amended: in app_claude with a single client and no concurrent
\* events, what load_history makes of the global history is the chatbot's
\* message list without the messages whose text is empty, in the same
\* order; the two are the same list when no message of the chatbot has an
\* empty text.
C17_ChatbotWithoutEmptyIsLoadedHistory ==
    variant = "claude" =>
        /\ PairMessages(global_chat_history) =
               SelectSeq(chatbot, LAMBDA m : Truthy(m.content))
        /\ (\A i \in 1..Len(chatbot) : Truthy(chatbot[i].content)) =>
               chatbot = PairMessages(global_chat_history)

\* C17's case: in app_claude a second respond has just returned, the
\* chatbot holds the four messages of two Turns, none empty, and
\* load_history would give the same list.
C17_Witness ==
    /\ variant = "claude"
    /\ last_event.op = "reply"
    /\ NoHandlerRuns
    /\ Len(chatbot) = 4
    /\ \A i \in 1..4 : Truthy(chatbot[i].content)
    /\ chatbot = PairMessages(global_chat_history)

====
